---- MODULE Spec2Model ----
(***************************************************************************)
(* Resumable seed pipeline of court-chat (scripts/loadDb.ts, kept here as  *)
(* src/unnamed/part_004): page-by-page crawl of CourtListener clusters,    *)
(* per-cluster processing (metadata upsert, opinions fetch, split, embed,  *)
(* deduplicated chunk insert, indexed flag) and the per-job checkpoint.    *)
(*                                                                         *)
(* Storage (cases, opinions, control) survives a process; everything else  *)
(* is local to one process (one run of main) and is lost when it exits or  *)
(* is killed.  Every await of the source is a step of its own, so a kill   *)
(* can fall between any two of them.                                       *)
(***************************************************************************)
EXTENDS Integers, Sequences, FiniteSets, Bags, TLC

\* ------------------------------------------------------------ bounds
\* processes (runs of main) started in one behaviour
MaxRuns == 3
\* kills of the process plus calls that end in an error, in one behaviour
MaxFaults == 2

\* ------------------------------------------------------------ configuration
START_YEAR == 2000
END_YEAR == 2001
BATCH == 40
MaxRetryAttempt == 8
ChunkSize == 900
ChunkOverlap == 150

\* ------------------------------------------------------------ strings
\* A string is the sequence of its UTF-16 code units; only digits and '-'
\* occur in dates.
Dash == <<45>>
DigitChar(n) == 48 + n

\* String(n) for 0 <= n <= 9999, no padding (template literal `${n}`)
NumStr(n) ==
  IF n < 10 THEN <<DigitChar(n)>>
  ELSE IF n < 100 THEN <<DigitChar(n \div 10), DigitChar(n % 10)>>
  ELSE IF n < 1000 THEN <<DigitChar(n \div 100), DigitChar((n \div 10) % 10), DigitChar(n % 10)>>
  ELSE <<DigitChar(n \div 1000), DigitChar((n \div 100) % 10), DigitChar((n \div 10) % 10), DigitChar(n % 10)>>

Pad2(n) == <<DigitChar(n \div 10), DigitChar(n % 10)>>

\* upstream's date_filed: ISO yyyy-mm-dd
IsoDate(y, m, d) == NumStr(y) \o Dash \o Pad2(m) \o Dash \o Pad2(d)

MinLen(a, b) == IF Len(a) < Len(b) THEN Len(a) ELSE Len(b)

\* a comparison that never holds, as a comparison of Number(a), Number(b)
\* (both NaN) would be
StrLessNaN(a, b) == FALSE

\* JavaScript's a < b on strings: code unit by code unit, a proper prefix first
StrLess(a, b) ==
  \/ \E i \in 1..MinLen(a, b) :
       /\ \A k \in 1..(i - 1) : a[k] = b[k]
       /\ a[i] < b[i]
  \/ /\ Len(a) < Len(b)
     /\ \A k \in 1..Len(a) : a[k] = b[k]

\* s.slice(0, n)
Slice0(s, n) == SubSeq(s, 1, IF Len(s) < n THEN Len(s) ELSE n)

\* `${START_YEAR}-01-01`
MinDate == NumStr(START_YEAR) \o Dash \o Pad2(1) \o Dash \o Pad2(1)
\* `${END_YEAR}-12-31`, processCluster's upper bound
GuardMaxDate == NumStr(END_YEAR) \o Dash \o Pad2(12) \o Dash \o Pad2(31)
\* `${END_YEAR}-5-01`, the orchestrator's upper bound
PageMaxDate == NumStr(END_YEAR) \o Dash \o NumStr(5) \o Dash \o Pad2(1)

\* ------------------------------------------------------------ upstream
\* The upstream dataset is fixed for a behaviour.  A cluster carries its id,
\* its date (year, month, day; year 0 when date_filed is missing) and its
\* opinions; an opinion carries its id and the lengths of its trimmed
\* plain_text and of its html once stripped (0 when empty or missing).
Op(id, plain, html) == [id |-> id, plain_text |-> plain, html |-> html]
Cluster(id, y, m, d, ops) == [id |-> id, y |-> y, m |-> m, d |-> d, ops |-> ops]

\* pages of the clusters listing, in upstream order
Pages ==
  << << Cluster(1, 2000, 6, 15, << Op(11, 2000, 0) >>),
        Cluster(2, 2002, 1, 1, << Op(21, 500, 0) >>),
        Cluster(6, 2001, 3, 1, << Op(61, 0, 0) >>) >>,
     << Cluster(3, 2001, 12, 31, << >>),
        Cluster(4, 1999, 12, 31, << Op(41, 500, 0) >>),
        Cluster(5, 2000, 1, 1, << Op(51, 0, 500), Op(53, 0, 0), Op(52, 500, 0) >>) >> >>

\* opinions listed per page of the opinions endpoint
OpPageSize == 1

NumPages == Len(Pages)
AllClusters == UNION { { Pages[p][i] : i \in 1..Len(Pages[p]) } : p \in 1..NumPages }
ClusterIds == { c.id : c \in AllClusters }
ClusterById(id) == CHOOSE c \in AllClusters : c.id = id
PageOf(id) == CHOOSE p \in 1..NumPages : \E i \in 1..Len(Pages[p]) : Pages[p][i].id = id

\* cluster.date_filed as the API sends it ('' when missing)
DateFiled(c) == IF c.y = 0 THEN << >> ELSE IsoDate(c.y, c.m, c.d)

\* json.next of clusters page p: the next page, 0 for none ('' / null)
NextOfPage(p) == IF p < NumPages THEN p + 1 ELSE 0

\* the opinions endpoint for a cluster: page k of its opinions, and its next
NumOpPages(c) == (Len(c.ops) + OpPageSize - 1) \div OpPageSize
OpPageResults(c, k) ==
  SubSeq(c.ops, (k - 1) * OpPageSize + 1,
         IF k * OpPageSize < Len(c.ops) THEN k * OpPageSize ELSE Len(c.ops))
OpPageNext(c, k) == IF k < NumOpPages(c) THEN k + 1 ELSE 0

\* the behaviours of the embeddings endpoint considered: it takes every
\* input, or it rejects the text of opinion 52 whenever it is sent
RejectChoices == { {}, {52} }

\* ------------------------------------------------------------ pure helpers
JOB_ID == <<"scotus", START_YEAR, END_YEAR>>
CaseIdOf(clusterId) == <<"cl", clusterId>>
OpinionIdOf(opinionId) == <<"clop", opinionId>>

\* sha1 is taken to be free of collisions: the digest stands for its input
Sha1(s) == <<"sha1", s>>

\* extractOpinionText: the trimmed plain_text when there is one, else the
\* stripped html; a text is named by the opinion, the field it came from and
\* its length, 0 for ''
ExtractOpinionText(op) ==
  IF op.plain_text # 0 THEN [op |-> op.id, field |-> "plain_text", len |-> op.plain_text]
  ELSE IF op.html = 0 THEN [op |-> op.id, field |-> "none", len |-> 0]
  ELSE [op |-> op.id, field |-> "html", len |-> op.html]

\* splitter.splitText on text without separators: windows of ChunkSize that
\* start every ChunkSize - ChunkOverlap characters
NumChunks(len) ==
  IF len = 0 THEN 0
  ELSE IF len <= ChunkSize THEN 1
  ELSE 1 + ((len - ChunkSize) + (ChunkSize - ChunkOverlap) - 1) \div (ChunkSize - ChunkOverlap)

\* a splitter that hands the text back as one chunk
SplitTextWhole(text) ==
  << [op |-> text.op, field |-> text.field, from |-> 0, to |-> text.len] >>

SplitText(text) ==
  [k \in 1..NumChunks(text.len) |->
     [op |-> text.op, field |-> text.field,
      from |-> (k - 1) * (ChunkSize - ChunkOverlap),
      to |-> IF (k - 1) * (ChunkSize - ChunkOverlap) + ChunkSize < text.len
             THEN (k - 1) * (ChunkSize - ChunkOverlap) + ChunkSize ELSE text.len]]

\* the embedding provider's vector for one input
Embedding(t) == <<"vec", t>>

\* embedBatch: blank inputs are dropped, one vector per remaining input, in order
\* a filter that also drops the chunk at the start of the text
NonBlankAfterTheFirst(t) == t.to > t.from /\ t.from > 0

NonBlank(t) == t.to > t.from
EmbedBatch(texts) ==
  LET inputs == SelectSeq(texts, NonBlank)
  IN  [i \in 1..Len(inputs) |-> Embedding(inputs[i])]

\* the OpinionChunk built for chunk i (0-based) of an opinion
ChunkDoc(clusterId, dd, opinionId, i, c, vectors) ==
  [case_id |-> CaseIdOf(clusterId),
   opinion_id |-> OpinionIdOf(opinionId),
   chunk_index |-> i,
   text |-> c,
   vector |-> IF i + 1 \in DOMAIN vectors THEN vectors[i + 1] ELSE <<"undefined">>,
   decision_date |-> dd,
   content_hash |-> Sha1(<<opinionId, i, c>>)]

\* ------------------------------------------------------------ collections
\* A collection is the set of its documents (a bag for opinions, where
\* insertMany can store equal documents twice); a document is a record.

\* a filter that every document passes
MatchingAny(coll, field, value) == coll

\* findOne(filter) on a set of documents: the matching documents
Matching(coll, field, value) == { d \in coll : d[field] = value }

\* { $set: fields } applied to a document
SetFields(doc, fields) ==
  [f \in (DOMAIN doc) \cup (DOMAIN fields) |->
     IF f \in DOMAIN fields THEN fields[f] ELSE doc[f]]

\* a write that leaves the written document alone in the collection
UpsertReplacingAll(coll, field, value, fields) ==
  { SetFields([f \in {field} |-> value], fields) }

\* updateOne without upsert: nothing is created when nothing matches
UpdateOneOnly(coll, field, value, fields) ==
  IF Matching(coll, field, value) = {}
  THEN coll
  ELSE LET d == CHOOSE x \in Matching(coll, field, value) : TRUE
       IN  (coll \ {d}) \cup { SetFields(d, fields) }

\* updateOne({field: value}, {$set: fields}, {upsert: true})
UpdateOneUpsert(coll, field, value, fields) ==
  IF Matching(coll, field, value) = {}
  THEN coll \cup { SetFields([f \in {field} |-> value], fields) }
  ELSE LET d == CHOOSE x \in Matching(coll, field, value) : TRUE
       IN  (coll \ {d}) \cup { SetFields(d, fields) }

\* writeCheckpoint(nextUrl) of a process configured as job (lines 241-255);
\* updated_at is a timestamp nothing reads
CheckpointWritten(coll, job, nextUrl) ==
  UpdateOneUpsert(coll, "job_id", job.job_id,
                  [job_id |-> job.job_id, start_year |-> job.start_year,
                   end_year |-> job.end_year, next_url |-> nextUrl])

\* the key insertOpinionChunks probes by
SameKey(a, b) ==
  /\ a.case_id = b.case_id
  /\ a.opinion_id = b.opinion_id
  /\ a.content_hash = b.content_hash

\* ------------------------------------------------------------ instances and jobs
\* the pipeline instances that SpecWriters runs against one storage
Writers == {"a", "b"}

\* the locals of an instance that is not in processCluster
InstIdle ==
  [pc |-> "idle", opIdx |-> 0, totalInserted |-> 0, docs |-> << >>, probeIdx |-> 0,
   toInsert |-> << >>, absent |-> {}]

\* JOB_ID of a process configured with SEED_JOB_ID (<< >> when unset) and a window
JobIdOf(seedJobId, startYear, endYear) ==
  IF seedJobId # << >> THEN seedJobId ELSE <<"scotus", startYear, endYear>>

\* the configurations of the processes that SpecJobs runs against one storage
Jobs ==
  { [job_id |-> JobIdOf(<< >>, START_YEAR, END_YEAR),
     start_year |-> START_YEAR, end_year |-> END_YEAR],
    [job_id |-> JobIdOf(<< >>, 1990, 1999), start_year |-> 1990, end_year |-> 1999],
    [job_id |-> JobIdOf(<<"nightly">>, START_YEAR, END_YEAR),
     start_year |-> START_YEAR, end_year |-> END_YEAR] }
JobIds == { j.job_id : j \in Jobs }

\* ------------------------------------------------------------ state
VARIABLES
  \* storage
  cases,          \* the cases collection
  opinions,       \* the opinions collection, a bag of OpinionChunks
  control,        \* the seed_control collection
  \* upstream
  embedRejects,   \* opinions whose chunks the embeddings endpoint rejects, every time
  \* the running process
  pc,             \* where the process is; "idle" when none runs
  resume,         \* RESUME of this process
  url,            \* loadAllCases: the clusters page being worked on, 0 for ''
  recIdx,         \* loadAllCases: position in json.results
  totalClusters,  \* loadAllCases: clusters handed to processCluster
  attempt,        \* fetchJsonWithRetry: attempt
  cur,            \* processCluster: cluster.id, 0 outside of it
  opUrl,          \* fetchOpinionsForCluster: page of the opinions listing
  opResults,      \* fetchOpinionsForCluster: results
  opIdx,          \* processCluster: position in opinions
  totalInserted,  \* processCluster: totalInserted
  docs,           \* insertOpinionChunks: docs
  sliceStart,     \* insertOpinionChunks: i
  probeIdx,       \* insertOpinionChunks: position in slice
  toInsert,       \* insertOpinionChunks: toInsert
  inserted,       \* insertOpinionChunks: inserted
  \* history, read by the properties only
  runs,           \* processes started
  faults,         \* kills and failed calls so far
  exits,          \* how each ended process ended: "done", "abort", "crash"
  requests,       \* requests issued by the fetchJsonWithRetry call in progress
  startUrl,       \* the page this process started its crawl from
  fetched,        \* clusters pages this process fetched
  attempted,      \* clusters this process called processCluster for
  threw,          \* <<cluster, after its upsertCase?, the opinion whose embedBatch
                  \* threw or 0>> for each processCluster that threw in this process
  threwPrev,      \* the same, of the process before
  crashUrl,       \* the page the last kill interrupted, 0 if it was between pages
  cpStale,        \* a process started with RESUME off since the stored checkpoint was written
  \* one call of fetchJsonWithRetry on its own (SpecFetch)
  callPc,         \* "none", "pending" (a request is awaited), "returned", "thrown"
  last,           \* the last response of the call: <<status, payload>>, << >> for none
  onlyBusy,       \* every response of the call so far was a 429
  waits,          \* the last two sleeps of the call, in ms
  result,         \* what the call returned, 0 for nothing
  \* two pipeline instances on one record (SpecWriters)
  inst,           \* the locals of processCluster and insertOpinionChunks, per instance
  \* processes of several jobs on the control collection (SpecJobs)
  cpRead,         \* <<job_id, what readCheckpoint returned>> of the last read, << >> for none
  lastWritten,    \* per job_id: <<the cursor last written>>, << >> for none
  \* one call of insertOpinionChunks on its own (SpecInsert)
  insPc,          \* "none", "probe", "insert_many", "returned"
  before,         \* the opinions collection when the call started
  passed,         \* the number of documents of each insertMany of the call
  ret             \* what the call returned: <<inserted>>, <<"undefined">> for a bare return

storageVars == <<cases, opinions, control, embedRejects>>
orchVars == <<resume, url, recIdx, totalClusters>>
clusterVars == <<cur, opUrl, opResults, opIdx, totalInserted>>
insertVars == <<docs, sliceStart, probeIdx, toInsert, inserted>>
runVars == <<runs, exits, startUrl, fetched, attempted, threw, threwPrev, crashUrl, cpStale>>
callVars == <<callPc, last, onlyBusy, waits, result>>
jobVars == <<cpRead, lastWritten>>
batchVars == <<insPc, before, passed, ret>>
\* what the crawl of one process never touches
asideVars == <<callVars, inst, jobVars, batchVars>>
\* what only the crawl of one process touches
crawlVars == <<pc, orchVars, clusterVars, insertVars, runVars, faults>>
vars == <<storageVars, pc, orchVars, attempt, clusterVars, insertVars,
          runVars, faults, requests, asideVars>>

Init ==
  /\ embedRejects \in RejectChoices
  /\ cases = {}
  /\ opinions = EmptyBag
  /\ control = {}
  /\ pc = "idle"
  /\ resume = TRUE
  /\ url = 0
  /\ recIdx = 0
  /\ totalClusters = 0
  /\ attempt = 1
  /\ cur = 0
  /\ opUrl = 0
  /\ opResults = << >>
  /\ opIdx = 0
  /\ totalInserted = 0
  /\ docs = << >>
  /\ sliceStart = 0
  /\ probeIdx = 0
  /\ toInsert = << >>
  /\ inserted = 0
  /\ runs = 0
  /\ faults = 0
  /\ exits = << >>
  /\ requests = 0
  /\ startUrl = 0
  /\ fetched = {}
  /\ attempted = {}
  /\ threw = {}
  /\ threwPrev = {}
  /\ crashUrl = 0
  /\ cpStale = FALSE
  /\ callPc = "none"
  /\ last = << >>
  /\ onlyBusy = TRUE
  /\ waits = << >>
  /\ result = 0
  /\ inst = [w \in Writers |-> InstIdle]
  /\ cpRead = << >>
  /\ lastWritten = [j \in JobIds |-> << >>]
  /\ insPc = "none"
  /\ before = EmptyBag
  /\ passed = << >>
  /\ ret = << >>

\* the locals of processCluster and insertOpinionChunks, gone on return or throw
ClearClusterLocals ==
  /\ cur' = 0
  /\ opUrl' = 0
  /\ opResults' = << >>
  /\ opIdx' = 0
  /\ totalInserted' = 0
  /\ docs' = << >>
  /\ sliceStart' = 0
  /\ probeIdx' = 0
  /\ toInsert' = << >>
  /\ inserted' = 0

\* the process is gone: by returning from main ("done"), by an error that
\* reaches main().catch and process.exit(1) ("abort"), or by a kill ("crash")
ProcessEnds(how) ==
  /\ pc' = "idle"
  /\ exits' = Append(exits, how)
  /\ url' = 0
  /\ recIdx' = 0
  /\ totalClusters' = 0
  /\ attempt' = 1
  /\ requests' = 0
  /\ ClearClusterLocals
  /\ UNCHANGED <<resume, runs, startUrl, fetched, attempted, threwPrev>>

\* a call to fetchJsonWithRetry starts
BeginFetch ==
  /\ attempt' = 1
  /\ requests' = 1

\* the call is over, by a return or a throw: its attempt is gone with it
EndFetch ==
  /\ attempt' = 1
  /\ requests' = 0

\* ------------------------------------------------------------ fetchJsonWithRetry
\* what one request can come to: res.ok, a status of retriableStatuses, any
\* other status, or fetch rejecting (network error, the 45 s abort)
Responses == {"ok", "retriable", "other", "neterr"}

\* a wrapper that gives up at the first response that is not ok
FetchDecisionNoRetry(r, a) == IF r = "ok" THEN "return" ELSE "throw"

\* what attempt `a` does with response r: "return" res.json(), "retry" (sleep,
\* then attempt a + 1) or "throw".  A status that is not retried at line 132
\* is thrown at line 144 inside the try, so the catch at line 145 receives it
\* like a network error.
FetchDecision(r, a) ==
  IF r = "ok" THEN "return"
  ELSE IF r = "retriable" /\ a <= MaxRetryAttempt THEN "retry"
  ELSE IF a <= MaxRetryAttempt THEN "retry"
  ELSE "throw"

\* a failed request is free while it is retried; the one that ends the call
\* in an error is a fault
FaultOfFetch(r) == IF FetchDecision(r, attempt) = "throw" THEN 1 ELSE 0
\* a call that never comes back
NeverResponds(r) == FALSE

MayRespond(r) == faults + FaultOfFetch(r) <= MaxFaults

\* ------------------------------------------------------------ main, loadAllCases
\* main: createCollections (the collections exist; nothing changes), then
\* loadAllCases up to its first await
StartRun(r) ==
  /\ pc = "idle"
  /\ runs < MaxRuns
  /\ runs' = runs + 1
  /\ resume' = r
  /\ url' = 1
  /\ startUrl' = IF r THEN 0 ELSE 1
  /\ pc' = IF r THEN "read_cp" ELSE "page_fetch"
  /\ BeginFetch
  /\ recIdx' = 0
  /\ totalClusters' = 0
  /\ fetched' = {}
  /\ attempted' = {}
  /\ threwPrev' = threw
  /\ threw' = {}
  /\ cpStale' = IF r THEN cpStale ELSE Matching(control, "job_id", JOB_ID) # {}
  /\ UNCHANGED <<storageVars, asideVars, clusterVars, insertVars, exits, crashUrl, faults>>

\* a resume that never goes back: after a finished crawl it takes up the
\* last page again
CheckpointUrlNeverBack ==
  LET cp == Matching(control, "job_id", JOB_ID)
  IN  IF cp # {}
      THEN IF (CHOOSE d \in cp : TRUE).next_url # 0
           THEN (CHOOSE d \in cp : TRUE).next_url
           ELSE NumPages
      ELSE url

\* readCheckpoint, and the choice of the first url (lines 512-519)
CheckpointUrl ==
  LET cp == Matching(control, "job_id", JOB_ID)
  IN  IF cp # {} /\ (CHOOSE d \in cp : TRUE).next_url # 0
      THEN (CHOOSE d \in cp : TRUE).next_url
      ELSE url

ReadCheckpoint ==
  /\ pc = "read_cp"
  /\ url' = CheckpointUrl
  /\ startUrl' = CheckpointUrl
  /\ pc' = "page_fetch"
  /\ BeginFetch
  /\ UNCHANGED <<storageVars, asideVars, resume, recIdx, totalClusters, clusterVars, insertVars,
                 runs, exits, fetched, attempted, threw, threwPrev, crashUrl, cpStale, faults>>

\* one request of fetchJsonWithRetry(url, 'fetch clusters page') (line 531);
\* its error is not caught in loadAllCases
FetchPage(r) ==
  /\ pc = "page_fetch"
  /\ MayRespond(r)
  /\ faults' = faults + FaultOfFetch(r)
  /\ CASE FetchDecision(r, attempt) = "return" ->
            /\ fetched' = fetched \cup {url}
            /\ recIdx' = 1
            /\ pc' = "rec_loop"
            /\ EndFetch
            /\ UNCHANGED <<resume, url, totalClusters, clusterVars,
                           insertVars, runs, exits, startUrl, attempted, threw, threwPrev,
                           crashUrl, cpStale>>
       [] FetchDecision(r, attempt) = "retry" ->
            /\ requests' = requests + 1
            /\ attempt' = attempt + 1
            /\ UNCHANGED <<pc, orchVars, clusterVars, insertVars, runVars>>
       [] FetchDecision(r, attempt) = "throw" ->
            /\ ProcessEnds("abort")
            /\ UNCHANGED <<threw, crashUrl, cpStale>>
  /\ UNCHANGED <<storageVars, asideVars, asideVars>>

\* the orchestrator's date filter (lines 536-539)
PageFilterSkips(cluster) ==
  LET df == Slice0(DateFiled(cluster), 10)
  IN  df # << >> /\ (StrLess(df, MinDate) \/ StrLess(PageMaxDate, df))

\* one turn of `for (const cluster of results)` up to the call of
\* processCluster, or the end of the loop
ForCluster ==
  /\ pc = "rec_loop"
  /\ IF recIdx > Len(Pages[url])
     THEN /\ pc' = "write_cp"
          /\ UNCHANGED <<recIdx, totalClusters, cur, attempted>>
     ELSE IF PageFilterSkips(Pages[url][recIdx])
     THEN /\ recIdx' = recIdx + 1
          /\ UNCHANGED <<pc, totalClusters, cur, attempted>>
     ELSE /\ totalClusters' = totalClusters + 1
          /\ cur' = Pages[url][recIdx].id
          /\ attempted' = attempted \cup {Pages[url][recIdx].id}
          /\ pc' = "pc_find"
          /\ UNCHANGED recIdx
  /\ UNCHANGED <<storageVars, asideVars, resume, url, attempt, requests, opUrl, opResults, opIdx,
                 totalInserted, insertVars, runs, exits, startUrl, fetched, threw,
                 threwPrev, crashUrl, cpStale, faults>>

\* processCluster returns: the for loop goes on with the next cluster
ProcessClusterReturns ==
  /\ recIdx' = recIdx + 1
  /\ pc' = "rec_loop"
  /\ ClearClusterLocals
  /\ UNCHANGED <<resume, url, totalClusters, attempt, requests, runVars>>

\* an error of processCluster that nothing catches: it ends loadAllCases
RecordErrorPropagates ==
  /\ ProcessEnds("abort")
  /\ threw' = threw \cup {<<cur, pc \notin {"pc_find", "pc_upsert"},
                            IF pc = "embed" THEN opResults[opIdx].id ELSE 0>>}
  /\ UNCHANGED <<crashUrl, cpStale>>

\* processCluster throws: the catch of lines 547-549 logs, the loop goes on
RecordErrorCaught ==
  /\ threw' = threw \cup {<<cur, pc \notin {"pc_find", "pc_upsert"},
                            IF pc = "embed" THEN opResults[opIdx].id ELSE 0>>}
  /\ recIdx' = recIdx + 1
  /\ pc' = "rec_loop"
  /\ ClearClusterLocals
  /\ EndFetch
  /\ UNCHANGED <<resume, url, totalClusters, runs, exits, startUrl,
                 fetched, attempted, threwPrev, crashUrl, cpStale>>

\* writeCheckpoint(json.next), then the rest of the while loop (lines 553-557)
WriteCheckpoint ==
  /\ pc = "write_cp"
  /\ control' = CheckpointWritten(control,
                  [job_id |-> JOB_ID, start_year |-> START_YEAR, end_year |-> END_YEAR],
                  NextOfPage(url))
  /\ IF NextOfPage(url) # 0
     THEN /\ url' = NextOfPage(url)
          /\ pc' = "page_fetch"
          /\ BeginFetch
          /\ UNCHANGED <<resume, recIdx, totalClusters, clusterVars, insertVars, runs, exits,
                         startUrl, fetched, attempted, threw, threwPrev, crashUrl>>
     ELSE /\ ProcessEnds("done")
          /\ UNCHANGED <<threw, crashUrl>>
  /\ cpStale' = FALSE
  /\ UNCHANGED <<cases, opinions, embedRejects, asideVars, faults>>

\* ------------------------------------------------------------ processCluster
\* existing?.indexed === true can never be told
NeverIndexed(clusterId) == FALSE

\* existing?.indexed === true (lines 415-419)
AlreadyIndexed(clusterId) ==
  \E d \in Matching(cases, "case_id", CaseIdOf(clusterId)) :
    "indexed" \in DOMAIN d /\ d.indexed = TRUE

\* the date guard of processCluster (lines 425-433)
GuardSkips(cluster) ==
  LET decision_date == DateFiled(cluster)
  IN  decision_date # << >>
      /\ (StrLess(decision_date, MinDate) \/ StrLess(GuardMaxDate, decision_date))

\* caseDoc with indexed: true from the start
CaseDocIndexed(cluster) ==
  [case_id |-> CaseIdOf(cluster.id), decision_date |-> DateFiled(cluster), indexed |-> TRUE]

\* caseDoc (lines 435-449); case_name, docket, citations, source_urls,
\* provider and court are copies of upstream fields and constants
CaseDoc(cluster) ==
  [case_id |-> CaseIdOf(cluster.id), decision_date |-> DateFiled(cluster), indexed |-> FALSE]

\* findOne of the case, the quick skip and the date guard (lines 414-433)
FindExisting ==
  /\ pc = "pc_find"
  /\ IF AlreadyIndexed(cur) \/ GuardSkips(ClusterById(cur))
     THEN ProcessClusterReturns
     ELSE /\ pc' = "pc_upsert"
          /\ UNCHANGED <<orchVars, attempt, requests, clusterVars, insertVars, runVars>>
  /\ UNCHANGED <<storageVars, asideVars, faults>>

\* upsertCase(caseDoc), then fetchOpinionsForCluster up to its first request
UpsertCase ==
  /\ pc = "pc_upsert"
  /\ cases' = UpdateOneUpsert(cases, "case_id", CaseIdOf(cur), CaseDoc(ClusterById(cur)))
  /\ opUrl' = 1
  /\ opResults' = << >>
  /\ BeginFetch
  /\ pc' = "op_fetch"
  /\ UNCHANGED <<opinions, control, embedRejects, asideVars, orchVars, cur, opIdx, totalInserted,
                 insertVars, runVars, faults>>

\* one request of fetchJsonWithRetry for a page of the cluster's opinions,
\* and the while loop of fetchOpinionsForCluster around it (lines 308-313)
FetchOpinions(r) ==
  /\ pc = "op_fetch"
  /\ MayRespond(r)
  /\ faults' = faults + FaultOfFetch(r)
  /\ CASE FetchDecision(r, attempt) = "return" ->
            LET results == opResults \o OpPageResults(ClusterById(cur), opUrl)
                next == OpPageNext(ClusterById(cur), opUrl)
            IN  /\ opResults' = results
                /\ IF next # 0
                   THEN /\ opUrl' = next
                        /\ BeginFetch
                        /\ UNCHANGED <<pc, opIdx>>
                   ELSE /\ pc' = IF Len(results) = 0 THEN "pc_mark_empty" ELSE "op_loop"
                        /\ opIdx' = 1
                        /\ EndFetch
                        /\ UNCHANGED opUrl
                /\ UNCHANGED <<orchVars, cur, totalInserted, insertVars, runVars>>
       [] FetchDecision(r, attempt) = "retry" ->
            /\ requests' = requests + 1
            /\ attempt' = attempt + 1
            /\ UNCHANGED <<pc, orchVars, clusterVars, insertVars, runVars>>
       [] FetchDecision(r, attempt) = "throw" ->
            RecordErrorCaught
  /\ UNCHANGED <<storageVars, asideVars, asideVars>>

\* a return that leaves the case as upsertCase wrote it
ReturnsUnmarked ==
  /\ pc = "pc_mark_empty"
  /\ ProcessClusterReturns
  /\ UNCHANGED <<storageVars, asideVars, faults>>

\* no opinions: the case is marked indexed with opinions_count 0 (line 458)
MarkEmpty ==
  /\ pc = "pc_mark_empty"
  /\ cases' = UpdateOneUpsert(cases, "case_id", CaseIdOf(cur),
                              [indexed |-> TRUE, opinions_count |-> 0])
  /\ ProcessClusterReturns
  /\ UNCHANGED <<opinions, control, embedRejects, asideVars, faults>>

\* one turn of `for (const op of opinions)` up to embedBatch (lines 465-474),
\* or the end of the loop
ForOpinion ==
  /\ pc = "op_loop"
  /\ IF opIdx > Len(opResults)
     THEN /\ pc' = "pc_mark"
          /\ UNCHANGED <<opIdx, docs>>
     ELSE LET text == ExtractOpinionText(opResults[opIdx])
          IN  IF text.len = 0 \/ Len(SplitText(text)) = 0
              THEN /\ opIdx' = opIdx + 1
                   /\ UNCHANGED <<pc, docs>>
              ELSE /\ pc' = "embed"
                   /\ UNCHANGED <<opIdx, docs>>
  /\ UNCHANGED <<storageVars, asideVars, orchVars, attempt, requests, cur, opUrl, opResults,
                 totalInserted, sliceStart, probeIdx, toInsert, inserted, runVars, faults>>

\* a slice that runs to the end of docs
SliceToTheEnd(ds, i) == SubSeq(ds, i + 1, Len(ds))

\* docs.slice(i, i + BATCH)
SliceOf(ds, i) == SubSeq(ds, i + 1, IF i + BATCH < Len(ds) THEN i + BATCH ELSE Len(ds))

\* embedBatch(chunks) answers, docs are built (lines 477-490) and
\* insertOpinionChunks runs up to its first findOne
Embed ==
  /\ pc = "embed"
  /\ opResults[opIdx].id \notin embedRejects
  /\ LET op == opResults[opIdx]
         chunks == SplitText(ExtractOpinionText(op))
         vectors == EmbedBatch(chunks)
     IN  docs' = [k \in 1..Len(chunks) |->
                    ChunkDoc(cur, DateFiled(ClusterById(cur)), op.id, k - 1, chunks[k], vectors)]
  /\ sliceStart' = 0
  /\ inserted' = 0
  /\ toInsert' = << >>
  /\ probeIdx' = 1
  /\ pc' = "probe"
  /\ UNCHANGED <<storageVars, asideVars, orchVars, attempt, requests, clusterVars, runVars, faults>>

\* the embeddings call fails: embedBatch throws, and so does processCluster;
\* a fault when the endpoint would have taken the input
EmbedFails ==
  /\ pc = "embed"
  /\ IF opResults[opIdx].id \in embedRejects
     THEN UNCHANGED faults
     ELSE faults < MaxFaults /\ faults' = faults + 1
  /\ RecordErrorCaught
  /\ UNCHANGED <<storageVars, asideVars, asideVars>>

\* ------------------------------------------------------------ insertOpinionChunks
\* a probe that finds nothing, whatever is stored
NeverExists(d) == FALSE

\* the findOne by (case_id, opinion_id, content_hash) (lines 390-393)
Exists(d) == \E x \in BagToSet(opinions) : SameKey(x, d)

\* the bag of the documents ds[k], k in S
DocsBag(ds, S) ==
  [x \in { ds[k] : k \in S } |-> Cardinality({ k \in S : ds[k] = x })]

\* the for loop of insertOpinionChunks moves to the slice at i, or the
\* function returns and processCluster goes on to the next opinion
\* (lines 385, 403-404, 492-497)
NextSlice(i, n) ==
  IF i < Len(docs)
  THEN /\ sliceStart' = i
       /\ inserted' = n
       /\ toInsert' = << >>
       /\ probeIdx' = 1
       /\ pc' = "probe"
       /\ UNCHANGED <<opIdx, totalInserted, docs>>
  ELSE /\ totalInserted' = totalInserted + n
       /\ opIdx' = opIdx + 1
       /\ pc' = "op_loop"
       /\ docs' = << >>
       /\ sliceStart' = 0
       /\ inserted' = 0
       /\ toInsert' = << >>
       /\ probeIdx' = 0

\* one findOne of the inner loop (lines 389-395); after the last one of the
\* slice, either insertMany is called or the outer loop goes on
Probe ==
  /\ pc = "probe"
  /\ LET slice == SliceOf(docs, sliceStart)
         d == slice[probeIdx]
         ti == IF Exists(d) THEN toInsert ELSE Append(toInsert, d)
     IN  IF probeIdx < Len(slice)
         THEN /\ toInsert' = ti
              /\ probeIdx' = probeIdx + 1
              /\ UNCHANGED <<pc, opIdx, totalInserted, docs, sliceStart, inserted>>
         ELSE IF Len(ti) > 0
         THEN /\ toInsert' = ti
              /\ pc' = "insert_many"
              /\ UNCHANGED <<opIdx, totalInserted, docs, sliceStart, probeIdx, inserted>>
         ELSE NextSlice(sliceStart + BATCH, inserted)
  /\ UNCHANGED <<storageVars, asideVars, orchVars, attempt, requests, cur, opUrl, opResults,
                 runVars, faults>>

\* insertMany(toInsert) succeeds (lines 397-400)
InsertMany ==
  /\ pc = "insert_many"
  /\ opinions' = opinions (+) DocsBag(toInsert, 1..Len(toInsert))
  /\ NextSlice(sliceStart + BATCH, inserted + Len(toInsert))
  /\ UNCHANGED <<cases, control, embedRejects, asideVars, orchVars, attempt, requests, cur, opUrl,
                 opResults, runVars, faults>>

\* insertMany fails after storing some of the documents, not all
InsertManyFails(S) ==
  /\ pc = "insert_many"
  /\ S # 1..Len(toInsert)
  /\ faults < MaxFaults
  /\ faults' = faults + 1
  /\ opinions' = opinions (+) DocsBag(toInsert, S)
  /\ RecordErrorCaught
  /\ UNCHANGED <<cases, control, embedRejects, asideVars>>

\* all opinions done: the case is marked indexed (lines 500-504)
MarkIndexed ==
  /\ pc = "pc_mark"
  /\ cases' = UpdateOneUpsert(cases, "case_id", CaseIdOf(cur),
                              [indexed |-> TRUE, opinions_count |-> totalInserted])
  /\ ProcessClusterReturns
  /\ UNCHANGED <<opinions, control, embedRejects, asideVars, faults>>

\* ------------------------------------------------------------ failures
\* a storage call of processCluster rejects and changes nothing
ClusterStoragePCs == {"pc_find", "pc_upsert", "pc_mark_empty", "probe", "pc_mark"}
ClusterStorageFails ==
  /\ pc \in ClusterStoragePCs
  /\ faults < MaxFaults
  /\ faults' = faults + 1
  /\ RecordErrorCaught
  /\ UNCHANGED <<storageVars, asideVars, asideVars>>

\* readCheckpoint or writeCheckpoint rejects and changes nothing: nothing in
\* loadAllCases catches it
CheckpointFails ==
  /\ pc \in {"read_cp", "write_cp"}
  /\ faults < MaxFaults
  /\ faults' = faults + 1
  /\ ProcessEnds("abort")
  /\ UNCHANGED <<storageVars, asideVars, threw, crashUrl, cpStale>>

\* where the process is between a page's fetch and its checkpoint
InPagePCs == {"rec_loop", "pc_find", "pc_upsert", "op_fetch", "pc_mark_empty", "op_loop",
              "embed", "probe", "insert_many", "pc_mark", "write_cp"}

\* the process is killed while it waits
Crash ==
  /\ pc # "idle"
  /\ faults < MaxFaults
  /\ faults' = faults + 1
  /\ crashUrl' = IF pc \in InPagePCs THEN url ELSE 0
  /\ ProcessEnds("crash")
  /\ UNCHANGED <<storageVars, asideVars, threw, cpStale>>

\* the process is killed while insertMany has stored some of the documents
CrashInInsertMany(S) ==
  /\ pc = "insert_many"
  /\ S # {}
  /\ faults < MaxFaults
  /\ faults' = faults + 1
  /\ opinions' = opinions (+) DocsBag(toInsert, S)
  /\ crashUrl' = url
  /\ ProcessEnds("crash")
  /\ UNCHANGED <<cases, control, embedRejects, asideVars, threw, cpStale>>

\* ------------------------------------------------------------ specification
Next ==
  \/ \E r \in BOOLEAN : StartRun(r)
  \/ ReadCheckpoint
  \/ \E r \in Responses : FetchPage(r)
  \/ ForCluster
  \/ FindExisting
  \/ UpsertCase
  \/ \E r \in Responses : FetchOpinions(r)
  \/ MarkEmpty
  \/ ForOpinion
  \/ Embed
  \/ EmbedFails
  \/ Probe
  \/ InsertMany
  \/ \E S \in SUBSET (1..Len(toInsert)) : InsertManyFails(S)
  \/ MarkIndexed
  \/ WriteCheckpoint
  \/ ClusterStorageFails
  \/ CheckpointFails
  \/ Crash
  \/ \E S \in SUBSET (1..Len(toInsert)) : CrashInInsertMany(S)

Spec == Init /\ [][Next]_vars

\* The steps of the process itself: something it awaits comes back, with a
\* result or with an error.  Starting a process and killing one are the
\* operator's.
Proceed ==
  \/ ReadCheckpoint
  \/ \E r \in Responses : FetchPage(r)
  \/ ForCluster
  \/ FindExisting
  \/ UpsertCase
  \/ \E r \in Responses : FetchOpinions(r)
  \/ MarkEmpty
  \/ ForOpinion
  \/ Embed
  \/ EmbedFails
  \/ Probe
  \/ InsertMany
  \/ \E S \in SUBSET (1..Len(toInsert)) : InsertManyFails(S)
  \/ MarkIndexed
  \/ WriteCheckpoint
  \/ ClusterStorageFails
  \/ CheckpointFails

\* Every awaited call eventually returns (the event loop then resumes the
\* one async function that waits for it), and the pipeline is run again
\* with resume enabled for as long as runs are left.
SpecLive ==
  /\ Init
  /\ [][Next]_vars
  /\ WF_vars(Proceed)
  /\ WF_vars(StartRun(TRUE))

\* ------------------------------------------------------------ fetchJsonWithRetry on its own
\* SpecFetch runs calls of fetchJsonWithRetry against an upstream that answers
\* each request as it likes; the finished call keeps attempt and requests for
\* the properties to read.
RetriableStatuses == {403, 408, 425, 429, 500, 502, 503, 504}

\* what the upstream answers with; 0 stands for fetch rejecting (network
\* error, the 45 s abort)
Statuses == {0, 200, 400, 404, 501} \cup RetriableStatuses

\* the parsed bodies of the 200 responses
Payloads == {1, 2}

\* res.ok, retriableStatuses.includes(res.status)
ClassOf(st) ==
  IF st = 0 THEN "neterr"
  ELSE IF st >= 200 /\ st <= 299 THEN "ok"
  ELSE IF st \in RetriableStatuses THEN "retriable"
  ELSE "other"

BackoffCap == 30000
BackoffUnit == 300
JitterSpan == 500

\* a base that grows by the same amount with every attempt
BackoffLinear(a) ==
  IF BackoffUnit * 2 * a < BackoffCap THEN BackoffUnit * 2 * a ELSE BackoffCap

\* Math.min(30_000, 300 * Math.pow(2, attempt))
Backoff(a) ==
  IF BackoffUnit * (2 ^ a) < BackoffCap THEN BackoffUnit * (2 ^ a) ELSE BackoffCap

\* Math.floor(Math.random() * 500): the ends of its range and the middle
Jitters == {0, JitterSpan \div 2, JitterSpan - 1}

\* the last two elements of a sequence
LastTwo(q) == IF Len(q) <= 2 THEN q ELSE SubSeq(q, Len(q) - 1, Len(q))

\* a caller calls fetchJsonWithRetry(url, purpose)
CallFetch ==
  /\ callPc # "pending"
  /\ callPc' = "pending"
  /\ BeginFetch
  /\ last' = << >>
  /\ onlyBusy' = TRUE
  /\ waits' = << >>
  /\ result' = 0
  /\ UNCHANGED <<storageVars, crawlVars, batchVars, inst, jobVars>>

\* the request of the current attempt is answered with status st (and body,
\* when it is a 200); a retry sleeps base + jitter first
Answer(st, body, jitter) ==
  /\ callPc = "pending"
  /\ last' = <<st, body>>
  /\ onlyBusy' = (onlyBusy /\ (last = << >> \/ last[1] = 429))
  /\ CASE FetchDecision(ClassOf(st), attempt) = "return" ->
            /\ callPc' = "returned"
            /\ result' = body
            /\ UNCHANGED <<attempt, requests, waits>>
       [] FetchDecision(ClassOf(st), attempt) = "retry" ->
            /\ waits' = LastTwo(Append(waits, [base |-> Backoff(attempt), jitter |-> jitter]))
            /\ attempt' = attempt + 1
            /\ requests' = requests + 1
            /\ UNCHANGED <<callPc, result>>
       [] FetchDecision(ClassOf(st), attempt) = "throw" ->
            /\ callPc' = "thrown"
            /\ UNCHANGED <<attempt, requests, waits, result>>
  /\ UNCHANGED <<storageVars, crawlVars, batchVars, inst, jobVars>>

NextFetch ==
  \/ CallFetch
  \/ \E st \in Statuses : \E jitter \in Jitters :
       \E body \in (IF ClassOf(st) = "ok" THEN Payloads ELSE {0}) : Answer(st, body, jitter)

SpecFetch == Init /\ [][NextFetch]_vars

\* ------------------------------------------------------------ two instances, one record
\* SpecWriters runs processCluster in two processes at once, both on the
\* first record of the first page and against the same storage; the fetches
\* and the embedding call answer, and neither process is killed.
SharedCluster == Pages[1][1]

\* inst with the locals of instance w changed
InstWith(w, fields) == [inst EXCEPT ![w] = SetFields(inst[w], fields)]

\* loadAllCases of instance w has come to processCluster(SharedCluster)
W_Start(w) ==
  /\ inst[w].pc = "idle"
  /\ inst' = InstWith(w, [pc |-> "pc_find"])
  /\ UNCHANGED <<storageVars, crawlVars, batchVars, attempt, requests, callVars, jobVars>>

\* findOne of the case, the quick skip and the date guard
W_FindExisting(w) ==
  /\ inst[w].pc = "pc_find"
  /\ inst' = InstWith(w, [pc |-> IF AlreadyIndexed(SharedCluster.id) \/ GuardSkips(SharedCluster)
                                 THEN "returned" ELSE "pc_upsert"])
  /\ UNCHANGED <<storageVars, crawlVars, batchVars, attempt, requests, callVars, jobVars>>

\* upsertCase(caseDoc), then fetchOpinionsForCluster
W_UpsertCase(w) ==
  /\ inst[w].pc = "pc_upsert"
  /\ cases' = UpdateOneUpsert(cases, "case_id", CaseIdOf(SharedCluster.id), CaseDoc(SharedCluster))
  /\ inst' = InstWith(w, [pc |-> IF Len(SharedCluster.ops) = 0 THEN "pc_mark_empty" ELSE "op_loop",
                          opIdx |-> 1])
  /\ UNCHANGED <<opinions, control, embedRejects, crawlVars, batchVars, attempt, requests, callVars, jobVars>>

\* one turn of the loop over the opinions up to the first findOne of
\* insertOpinionChunks, or the end of the loop
W_ForOpinion(w) ==
  /\ inst[w].pc = "op_loop"
  /\ IF inst[w].opIdx > Len(SharedCluster.ops)
     THEN inst' = InstWith(w, [pc |-> "pc_mark"])
     ELSE LET op == SharedCluster.ops[inst[w].opIdx]
              chunks == SplitText(ExtractOpinionText(op))
              vectors == EmbedBatch(chunks)
          IN  IF Len(chunks) = 0
              THEN inst' = InstWith(w, [opIdx |-> inst[w].opIdx + 1])
              ELSE inst' = InstWith(w,
                     [pc |-> "probe",
                      docs |-> [k \in 1..Len(chunks) |->
                                  ChunkDoc(SharedCluster.id, DateFiled(SharedCluster), op.id,
                                           k - 1, chunks[k], vectors)],
                      probeIdx |-> 1,
                      toInsert |-> << >>])
  /\ UNCHANGED <<storageVars, crawlVars, batchVars, attempt, requests, callVars, jobVars>>

\* one findOne of insertOpinionChunks (docs fit one slice of BATCH); absent
\* collects the documents whose key was not stored at their findOne
W_Probe(w) ==
  /\ inst[w].pc = "probe"
  /\ LET d == SliceOf(inst[w].docs, 0)[inst[w].probeIdx]
         ti == IF Exists(d) THEN inst[w].toInsert ELSE Append(inst[w].toInsert, d)
         ab == IF \E x \in BagToSet(opinions) : SameKey(x, d)
               THEN inst[w].absent ELSE inst[w].absent \cup {d}
     IN  IF inst[w].probeIdx < Len(SliceOf(inst[w].docs, 0))
         THEN inst' = InstWith(w, [toInsert |-> ti, absent |-> ab,
                                   probeIdx |-> inst[w].probeIdx + 1])
         ELSE IF Len(ti) > 0
         THEN inst' = InstWith(w, [toInsert |-> ti, absent |-> ab, pc |-> "insert_many"])
         ELSE inst' = InstWith(w, [toInsert |-> ti, absent |-> ab, pc |-> "op_loop",
                                   opIdx |-> inst[w].opIdx + 1, docs |-> << >>, probeIdx |-> 0])
  /\ UNCHANGED <<storageVars, crawlVars, batchVars, attempt, requests, callVars, jobVars>>

\* insertMany(toInsert), and back to the loop over the opinions
W_InsertMany(w) ==
  /\ inst[w].pc = "insert_many"
  /\ opinions' = opinions (+) DocsBag(inst[w].toInsert, 1..Len(inst[w].toInsert))
  /\ inst' = InstWith(w, [pc |-> "op_loop", opIdx |-> inst[w].opIdx + 1,
                          totalInserted |-> inst[w].totalInserted + Len(inst[w].toInsert),
                          docs |-> << >>, probeIdx |-> 0, toInsert |-> << >>])
  /\ UNCHANGED <<cases, control, embedRejects, crawlVars, batchVars, attempt, requests, callVars, jobVars>>

\* the case is marked indexed, with no opinions or after the last one
W_MarkIndexed(w) ==
  /\ inst[w].pc \in {"pc_mark", "pc_mark_empty"}
  /\ cases' = UpdateOneUpsert(cases, "case_id", CaseIdOf(SharedCluster.id),
                              [indexed |-> TRUE,
                               opinions_count |-> IF inst[w].pc = "pc_mark"
                                                  THEN inst[w].totalInserted ELSE 0])
  /\ inst' = InstWith(w, [pc |-> "returned"])
  /\ UNCHANGED <<opinions, control, embedRejects, crawlVars, batchVars, attempt, requests, callVars, jobVars>>

NextWriters ==
  \E w \in Writers :
    \/ W_Start(w)
    \/ W_FindExisting(w)
    \/ W_UpsertCase(w)
    \/ W_ForOpinion(w)
    \/ W_Probe(w)
    \/ W_InsertMany(w)
    \/ W_MarkIndexed(w)

SpecWriters == Init /\ [][NextWriters]_vars

\* ------------------------------------------------------------ the checkpoints of several jobs
\* SpecJobs runs readCheckpoint and writeCheckpoint of processes configured
\* for different jobs against one control collection.

\* a process of job j writes its checkpoint with cursor nextUrl
JobWritesCheckpoint(j, nextUrl) ==
  /\ control' = CheckpointWritten(control, j, nextUrl)
  /\ lastWritten' = [lastWritten EXCEPT ![j.job_id] = <<nextUrl>>]
  /\ UNCHANGED <<cases, opinions, embedRejects, crawlVars, batchVars, attempt, requests, callVars,
                 inst, cpRead>>

\* a process of job j reads its checkpoint: the document found, or null
JobReadsCheckpoint(j) ==
  /\ IF Matching(control, "job_id", j.job_id) = {}
     THEN cpRead' = <<j.job_id, << >> >>
     ELSE \E d \in Matching(control, "job_id", j.job_id) : cpRead' = <<j.job_id, <<d>> >>
  /\ UNCHANGED <<storageVars, crawlVars, batchVars, attempt, requests, callVars, inst, lastWritten>>

NextJobs ==
  \/ \E j \in Jobs : \E nextUrl \in 0..NumPages : JobWritesCheckpoint(j, nextUrl)
  \/ \E j \in Jobs : JobReadsCheckpoint(j)

SpecJobs == Init /\ [][NextJobs]_vars

\* ------------------------------------------------------------ insertOpinionChunks on its own
\* SpecInsert calls insertOpinionChunks with batches as processCluster builds
\* them (the chunks of one opinion, never none: line 474 skips an opinion
\* without chunks), against a storage that holds some of the batch already.

\* the lengths of the opinion texts: 1, 3, 41 and 81 chunks
BatchTextLens == {900, 2000, 30900, 60900}

\* docs of processCluster (lines 479-490) for an opinion with a text of len
BatchOf(len) ==
  LET chunks == SplitText(ExtractOpinionText(Op(71, len, 0)))
      vectors == EmbedBatch(chunks)
  IN  [k \in 1..Len(chunks) |->
         ChunkDoc(7, IsoDate(START_YEAR, 1, 1), 71, k - 1, chunks[k], vectors)]

Batches == { BatchOf(len) : len \in BatchTextLens }

\* a chunk of the same opinion stored from an older text: another content_hash
OlderChunk(d) == [d EXCEPT !.content_hash = Sha1(<<"older">>)]

\* what the storage holds when the call starts: none of the batch, all of it,
\* every other document, the first, the last, the first slice, all but the
\* first slice; with or without a chunk of an older text
PriorPatterns(n) ==
  { {}, 1..n, { k \in 1..n : k % 2 = 1 }, {1}, {n},
    { k \in 1..n : k <= BATCH }, { k \in 1..n : k > BATCH } }

PriorChoices(ds) ==
  { DocsBag(ds, S) (+) older :
      S \in PriorPatterns(Len(ds)), older \in {EmptyBag, SetToBag({OlderChunk(ds[1])})} }

\* insertOpinionChunks(ds) is called and runs up to its first findOne
\* (lines 378-385)
CallInsertOpinionChunks(ds, prior) ==
  /\ insPc \in {"none", "returned"}
  /\ opinions' = prior
  /\ before' = prior
  /\ passed' = << >>
  /\ docs' = ds
  /\ sliceStart' = 0
  /\ inserted' = 0
  /\ toInsert' = << >>
  /\ IF Len(ds) = 0
     THEN /\ insPc' = "returned"
          /\ ret' = <<"undefined">>
          /\ probeIdx' = 0
     ELSE /\ insPc' = "probe"
          /\ ret' = << >>
          /\ probeIdx' = 1
  /\ UNCHANGED <<cases, control, embedRejects, pc, orchVars, attempt, requests, clusterVars,
                 runVars, faults, callVars, inst, jobVars>>

\* the for loop moves to the slice at i, or the function returns inserted
\* (lines 385, 403-404)
NextSliceOfCall(i, n) ==
  IF i < Len(docs)
  THEN /\ sliceStart' = i
       /\ inserted' = n
       /\ toInsert' = << >>
       /\ probeIdx' = 1
       /\ insPc' = "probe"
       /\ UNCHANGED ret
  ELSE /\ inserted' = n
       /\ ret' = <<n>>
       /\ insPc' = "returned"
       /\ UNCHANGED <<sliceStart, toInsert, probeIdx>>

\* one findOne of the inner loop (lines 389-395)
ProbeOfCall ==
  /\ insPc = "probe"
  /\ LET slice == SliceOf(docs, sliceStart)
         d == slice[probeIdx]
         ti == IF Exists(d) THEN toInsert ELSE Append(toInsert, d)
     IN  IF probeIdx < Len(slice)
         THEN /\ toInsert' = ti
              /\ probeIdx' = probeIdx + 1
              /\ UNCHANGED <<insPc, sliceStart, inserted, ret>>
         ELSE IF Len(ti) > 0
         THEN /\ toInsert' = ti
              /\ insPc' = "insert_many"
              /\ UNCHANGED <<sliceStart, probeIdx, inserted, ret>>
         ELSE NextSliceOfCall(sliceStart + BATCH, inserted)
  /\ UNCHANGED <<storageVars, pc, orchVars, attempt, requests, clusterVars, docs,
                 runVars, faults, callVars, inst, jobVars, before, passed>>

\* insertMany(toInsert) (lines 397-400)
InsertManyOfCall ==
  /\ insPc = "insert_many"
  /\ opinions' = opinions (+) DocsBag(toInsert, 1..Len(toInsert))
  /\ passed' = Append(passed, Len(toInsert))
  /\ NextSliceOfCall(sliceStart + BATCH, inserted + Len(toInsert))
  /\ UNCHANGED <<cases, control, embedRejects, pc, orchVars, attempt, requests, clusterVars,
                 docs, runVars, faults, callVars, inst, jobVars, before>>

NextInsert ==
  \/ \E ds \in Batches : \E prior \in PriorChoices(ds) : CallInsertOpinionChunks(ds, prior)
  \/ ProbeOfCall
  \/ InsertManyOfCall

SpecInsert == Init /\ [][NextInsert]_vars

\* ------------------------------------------------------------ vocabulary of the properties
\* The window by the calendar, not by the comparisons of the code.
DateNum(c) == c.y * 10000 + c.m * 100 + c.d
InWindow(c) ==
  /\ c.y # 0
  /\ DateNum(c) >= START_YEAR * 10000 + 101
  /\ DateNum(c) <= END_YEAR * 10000 + 1231
OutOfWindow(c) == c.y # 0 /\ ~InWindow(c)

\* the clusters of page p that lie in the window (or carry no date)
EligibleOn(p) == { Pages[p][i].id : i \in { k \in 1..Len(Pages[p]) : ~OutOfWindow(Pages[p][k]) } }

StoredCase(id) == { d \in cases : d.case_id = CaseIdOf(id) }
StoredIndexed(id) == \E d \in StoredCase(id) : "indexed" \in DOMAIN d /\ d.indexed = TRUE
StoredChunks(id) == { x \in BagToSet(opinions) : x.case_id = CaseIdOf(id) }

\* the chunks of one opinion, as processCluster builds them
ChunksOfOp(c, op) ==
  LET chunks == SplitText(ExtractOpinionText(op))
  IN  { ChunkDoc(c.id, DateFiled(c), op.id, k - 1, chunks[k], EmbedBatch(chunks)) :
          k \in 1..Len(chunks) }

KeyStored(d) == \E x \in BagToSet(opinions) : SameKey(x, d)

ThrewIds(t) == { e[1] : e \in t }
ThrewAfterUpsert(t) == { e[1] : e \in { x \in t : x[2] } }

LastExit == IF Len(exits) = 0 THEN "none" ELSE exits[Len(exits)]
Running == pc # "idle"

\* What one uninterrupted run over the upstream leaves in empty storage: a
\* cluster stops at its first opinion the embeddings endpoint rejects.
FirstRejected(c) ==
  LET bad == { i \in 1..Len(c.ops) :
                 /\ NumChunks(ExtractOpinionText(c.ops[i]).len) > 0
                 /\ c.ops[i].id \in embedRejects }
  IN  IF bad = {} THEN Len(c.ops) + 1 ELSE CHOOSE i \in bad : \A j \in bad : i <= j
UninterruptedChunksOf(c) ==
  UNION { ChunksOfOp(c, c.ops[i]) : i \in 1..(FirstRejected(c) - 1) }
UninterruptedCaseOf(c) ==
  IF FirstRejected(c) <= Len(c.ops)
  THEN [case_id |-> CaseIdOf(c.id), decision_date |-> DateFiled(c), indexed |-> FALSE]
  ELSE [case_id |-> CaseIdOf(c.id), decision_date |-> DateFiled(c), indexed |-> TRUE,
        opinions_count |-> Cardinality(UninterruptedChunksOf(c))]
UninterruptedCases == { UninterruptedCaseOf(c) : c \in { x \in AllClusters : ~OutOfWindow(x) } }
UninterruptedOpinions ==
  SetToBag(UNION { UninterruptedChunksOf(c) : c \in { x \in AllClusters : ~OutOfWindow(x) } })

\* the reference above is what the model's own first run, free of faults, leaves
UninterruptedRunIsTheReference ==
  (exits = <<"done">> /\ faults = 0) =>
     (cases = UninterruptedCases /\ opinions = UninterruptedOpinions)

\* a document without its opinions_count
WithoutCount(d) == [f \in (DOMAIN d) \ {"opinions_count"} |-> d[f]]

\* ------------------------------------------------------------ C1
\* C1: with one writer, in every reachable storage state (after runs that
\* were killed at any call, after failed and retried records) at most one
\* OpinionChunk is stored for each (case_id, opinion_id, content_hash).
C1_OneChunkPerKey ==
  \A x \in BagToSet(opinions) :
    /\ CopiesIn(x, opinions) = 1
    /\ \A y \in BagToSet(opinions) : SameKey(x, y) => x = y

\* a later process probes for a chunk that an earlier, failed attempt stored
C1_Witness ==
  /\ runs >= 2
  /\ faults >= 1
  /\ pc = "probe"
  /\ KeyStored(SliceOf(docs, sliceStart)[probeIdx])

\* ------------------------------------------------------------ C2
\* C2: a whole run is idempotent.  After a first run of loadAllCases that
\* ran to completion, a second run over the same upstream (the same
\* responses, no kill, no call failing that the upstream would have served:
\* faults = 0) changes no CaseDocument and no OpinionChunk at any of its
\* steps, so it creates none, duplicates none and ends with the records of
\* the first run.  The records the embeddings endpoint rejects fail in both
\* runs alike.
C2_SecondRunChangesNothing ==
  [][ (runs = 2 /\ exits = <<"done">> /\ faults = 0 /\ faults' = 0)
        => (cases' = cases /\ opinions' = opinions) ]_vars

\* the second run has ended, having gone through indexed records again
C2_Witness ==
  /\ exits = <<"done", "done">>
  /\ faults = 0
  /\ pc = "idle"
  /\ \E id \in attempted : StoredIndexed(id) /\ StoredChunks(id) # {}

\* ------------------------------------------------------------ C3
\* C3: checkpoint resumption.  A first run over empty storage is killed
\* after page k's checkpoint was written (the only fault); the run restarted
\* with resume enabled fetches no page among 1..k and ends with the
\* CaseDocuments (indexed and opinions_count included) and OpinionChunks of
\* one uninterrupted run.
C3_ResumeEndsAsUninterrupted ==
  ( /\ exits = <<"crash", "done">>
    /\ faults = 1
    /\ resume
    /\ startUrl >= 2 )
  => /\ \A p \in fetched : p >= startUrl
     /\ cases = UninterruptedCases
     /\ opinions = UninterruptedOpinions

\* the same without opinions_count: this much the resumed run does restore
C3_ResumeEndsAsUninterruptedButCount ==
  ( /\ exits = <<"crash", "done">>
    /\ faults = 1
    /\ resume
    /\ startUrl >= 2 )
  => /\ \A p \in fetched : p >= startUrl
     /\ { WithoutCount(d) : d \in cases } = { WithoutCount(d) : d \in UninterruptedCases }
     /\ opinions = UninterruptedOpinions

\* ------------------------------------------------------------ C4
\* C4: when processCluster fails after its metadata upsert, the record's
\* CaseDocument keeps indexed=false (and the chunks stored before the failure
\* stay: no step removes a chunk), and the next run, resume enabled, calls
\* processCluster for that record again.
C4_FailedRecordRevisitedNextRun ==
  /\ \A id \in ThrewAfterUpsert(threw) : StoredCase(id) # {} /\ ~StoredIndexed(id)
  /\ ( /\ pc = "idle"
       /\ Len(exits) >= 2
       /\ LastExit = "done"
       /\ resume )
     => ThrewAfterUpsert(threwPrev) \subseteq attempted

\* the part of C4 that holds: indexed stays false after the failure
C4_FailedRecordStaysUnindexed ==
  \A id \in ThrewAfterUpsert(threw) : StoredCase(id) # {} /\ ~StoredIndexed(id)

\* ------------------------------------------------------------ C5
\* every in-window record of a page has been handed to processCluster when
\* the page's checkpoint is written, and of every page from the start page on
\* when the run ends normally
AllAttempted ==
  /\ pc = "write_cp" => EligibleOn(url) \subseteq attempted
  /\ (pc = "idle" /\ LastExit = "done") =>
       /\ startUrl..NumPages \subseteq fetched
       /\ \A p \in startUrl..NumPages : EligibleOn(p) \subseteq attempted

\* C5: per-item error isolation.  When processCluster throws for a record,
\* the process goes on with the next record of the same page and does not
\* end; a page's checkpoint is written only once processCluster has been
\* called for every in-window record of the page, thrown or not; and a run
\* that ends normally has fetched every page from its start page on and
\* called processCluster for every in-window record of these pages.
C5_ErrorIsolation ==
  /\ []AllAttempted
  /\ [][ (threw' \ threw # {})
           => /\ pc' = "rec_loop"
              /\ url' = url
              /\ recIdx' = recIdx + 1
              /\ exits' = exits ]_vars

\* a run ended normally although a record threw, and a later record of the
\* same page was handed to processCluster
C5_Witness ==
  /\ pc = "idle"
  /\ LastExit = "done"
  /\ \E t \in ThrewIds(threw) : \E id \in attempted :
       /\ PageOf(id) = PageOf(t)
       /\ id > t

\* ------------------------------------------------------------ C6
\* C6: checkpoint ordering.  The checkpoint past page p is written only
\* after processCluster was called for every in-window record of p;
\* consequently a run resumed after a kill in the middle of page p starts by
\* fetching page p again and calls processCluster for no record of an
\* earlier page.
C6_CheckpointOrdering ==
  /\ pc = "write_cp" => EligibleOn(url) \subseteq attempted
  /\ ( /\ Running
       /\ pc # "read_cp"
       /\ resume
       /\ LastExit = "crash"
       /\ crashUrl # 0 )
     => /\ startUrl = crashUrl
        /\ \A id \in attempted : PageOf(id) >= crashUrl

\* the part of C6 that holds whatever RESUME the killed process had
C6_NeverAnEarlierPage ==
  /\ pc = "write_cp" => EligibleOn(url) \subseteq attempted
  /\ ( /\ Running
       /\ pc # "read_cp"
       /\ resume
       /\ LastExit = "crash"
       /\ crashUrl # 0 )
     => /\ startUrl >= crashUrl
        /\ \A id \in attempted : PageOf(id) >= crashUrl

\* ------------------------------------------------------------ C7
\* C7: the indexed flag reflects true completion.  In every reachable
\* state, a kill at any await included, a CaseDocument has indexed=true only
\* if its record has no sub-documents or every chunk of every sub-document
\* with non-empty text is stored under its (case_id, opinion_id,
\* content_hash).
C7_IndexedMeansComplete ==
  \A c \in AllClusters :
    StoredIndexed(c.id) =>
      \/ Len(c.ops) = 0
      \/ \A i \in 1..Len(c.ops) : \A d \in ChunksOfOp(c, c.ops[i]) : KeyStored(d)

\* a record is indexed by the run after the one that was killed while its
\* chunks were being stored
C7_Witness ==
  /\ \E i \in 1..Len(exits) : exits[i] = "crash"
  /\ \E c \in AllClusters :
       /\ StoredIndexed(c.id)
       /\ Cardinality(StoredChunks(c.id)) >= 2
       /\ \E d \in StoredCase(c.id) : d.opinions_count < Cardinality(StoredChunks(c.id))

\* ------------------------------------------------------------ C8
\* where processCluster is once it is past its quick skip and its date guard
AfterTheSkipCheck == {"pc_upsert", "op_fetch", "pc_mark_empty", "op_loop", "embed",
                      "probe", "insert_many", "pc_mark"}

\* C8: record-level resume.  When processCluster is called for a record
\* whose stored CaseDocument has indexed=true, the call is over with its
\* first step: it never reaches the fetch of the sub-documents, the
\* embedding call or a chunk write, and it leaves cases (indexed and
\* opinions_count included) and opinions as they were.
C8_IndexedRecordSkipped ==
  /\ [](pc \in AfterTheSkipCheck => ~StoredIndexed(cur))
  /\ [][ (pc = "pc_find" /\ StoredIndexed(cur))
           => /\ pc' \in {"rec_loop", "idle"}
              /\ cases' = cases
              /\ opinions' = opinions ]_vars

\* the second run has just returned from processCluster for record 1, which
\* the first run had indexed
C8_Witness ==
  /\ runs = 2
  /\ exits = <<"done">>
  /\ pc = "rec_loop"
  /\ url = 1
  /\ recIdx = 2
  /\ 1 \in attempted
  /\ threw = {}
  /\ StoredIndexed(1)

\* ------------------------------------------------------------ C9
\* C9: for every record whose decision date lies outside the window (before
\* START_YEAR-01-01 or after END_YEAR-12-31) no CaseDocument and no
\* OpinionChunk is ever stored, so none is created or modified.
C9_OutOfWindowUntouched ==
  \A c \in AllClusters :
    OutOfWindow(c) => (StoredCase(c.id) = {} /\ StoredChunks(c.id) = {})

\* the for loop has passed a record dated before the window and one after it
C9_Witness ==
  /\ LastExit = "done"
  /\ fetched = 1..NumPages
  /\ \E c \in AllClusters : OutOfWindow(c) /\ DateNum(c) < START_YEAR * 10000 + 101
  /\ \E c \in AllClusters : OutOfWindow(c) /\ DateNum(c) > END_YEAR * 10000 + 1231

\* ------------------------------------------------------------ C10
\* C10: retry ceiling.  A call of fetchJsonWithRetry whose first 8 attempts
\* fail issues no 9th request, and once the call has failed its caller does
\* not call it again for that record in this process (a failed page fetch
\* ends the process).
C10_RetryCeiling ==
  /\ requests <= MaxRetryAttempt
  /\ pc = "op_fetch" => cur \notin ThrewIds(threw)

\* what the code has instead: one request more
C10_NinthRequestIsTheLast == requests <= MaxRetryAttempt + 1

\* ------------------------------------------------------------ C11
\* the statuses that are neither 2xx nor in the retriable set
OtherStatuses == { st \in Statuses : st # 0 /\ (st < 200 \/ st > 299) /\ st \notin RetriableStatuses }

\* responses the finished or pending call has received
Answered == IF callPc = "pending" THEN requests - 1 ELSE requests

\* C11: a response with a non-2xx status outside the retriable set (404, 400)
\* makes fetchJsonWithRetry fail at once: the call has thrown with this
\* response, no sleep follows it and no further request is issued, so a call
\* whose first response it is has issued exactly one request.
C11_OtherStatusFailsAtOnce ==
  (last # << >> /\ last[1] \in OtherStatuses) =>
     /\ callPc = "thrown"
     /\ requests = Answered
     /\ Len(waits) < Answered

\* what the code has instead: such a status is retried like a network error,
\* and the call throws on it only at its ninth request
C11_OtherStatusRetried ==
  (last # << >> /\ last[1] \in OtherStatuses) =>
     IF Answered <= MaxRetryAttempt
     THEN callPc = "pending" /\ requests = Answered + 1 /\ waits # << >>
     ELSE callPc = "thrown"

\* ------------------------------------------------------------ C12
\* C12: for every k from 0 to 7, a call whose first k requests were answered
\* with 429 is still in progress with request k+1 issued, and when that
\* request is answered with 200 the call returns this response's payload,
\* having issued exactly k+1 requests.
C12_BusyThenOkReturns ==
  /\ ( /\ callPc # "none"
       /\ onlyBusy
       /\ last # << >>
       /\ last[1] = 429
       /\ Answered <= MaxRetryAttempt - 1 )
     => (callPc = "pending" /\ requests = Answered + 1)
  /\ ( /\ callPc # "none"
       /\ onlyBusy
       /\ last # << >>
       /\ last[1] = 200
       /\ Answered <= MaxRetryAttempt )
     => (callPc = "returned" /\ result = last[2] /\ requests = Answered)

\* seven 429s, then a 200: the call has returned its payload at request 8
C12_Witness ==
  /\ callPc = "returned"
  /\ onlyBusy
  /\ requests = MaxRetryAttempt
  /\ last = <<200, 2>>
  /\ result = 2

\* ------------------------------------------------------------ C13
\* min(30000, 300 * 2^n), by the numbers of the spec
SpecBase(n) == IF 300 * (2 ^ n) < 30000 THEN 300 * (2 ^ n) ELSE 30000

\* C13: backoff growth.  The sleep before the retry after attempt n has base
\* min(30000, 300*2^n) and a jitter in 0..499; the base is twice the one
\* before it or the cap; for every jitter a sleep is strictly longer than
\* the one before it when that one's base was below the cap; and no sleep
\* is longer than 30499 ms.
C13_BackoffGrowth ==
  /\ Len(waits) >= 1 =>
       LET w == waits[Len(waits)]
       IN  /\ w.base = SpecBase(attempt - 1)
           /\ w.jitter \in 0..499
           /\ w.base + w.jitter <= 30499
  /\ Len(waits) = 2 =>
       LET v == waits[1]
           w == waits[2]
       IN  /\ v.base = SpecBase(attempt - 2)
           /\ w.base = (IF 2 * v.base < 30000 THEN 2 * v.base ELSE 30000)
           /\ v.base < 30000 => w.base + w.jitter > v.base + v.jitter

\* the longest jitter was followed by the shortest, both bases below the cap
C13_Witness ==
  /\ Len(waits) = 2
  /\ waits[1].jitter = 499
  /\ waits[2].jitter = 0
  /\ waits[2].base < 30000
  /\ attempt = 4

\* ------------------------------------------------------------ C14
\* C14: whenever a CaseDocument has indexed=true, its opinions_count is the
\* number of OpinionChunks stored under its case_id, after any sequence of
\* runs, a record completed on a retry after a failure or kill that had
\* already stored some of its chunks included.
C14_CountIsChunksStored ==
  \A c \in AllClusters :
    \A d \in StoredCase(c.id) :
      ("indexed" \in DOMAIN d /\ d.indexed = TRUE) =>
         d.opinions_count = Cardinality(StoredChunks(c.id))

\* what the code has instead: the count never exceeds the chunks stored, and
\* is their number as long as no invocation failed or was killed
C14_CountIsWhatWasInsertedLast ==
  \A c \in AllClusters :
    \A d \in StoredCase(c.id) :
      ("indexed" \in DOMAIN d /\ d.indexed = TRUE) =>
         /\ d.opinions_count <= Cardinality(StoredChunks(c.id))
         /\ faults = 0 => d.opinions_count = Cardinality(StoredChunks(c.id))

\* ------------------------------------------------------------ C15
\* C15: first-time processing (no failure, no kill) of a record with one
\* sub-document whose text splits into N chunks stores exactly N
\* OpinionChunks, once each, with chunk_index 0..N-1 in the order of the
\* text, windows of at most 900 characters that start every 750, and ends
\* with indexed=true and opinions_count=N; 2000 characters give N = 3.
C15_FirstTimeStoresTheChunks ==
  \A c \in AllClusters :
    (faults = 0 /\ Len(c.ops) = 1 /\ StoredIndexed(c.id)) =>
       LET text == ExtractOpinionText(c.ops[1])
           N == IF text.len = 2000 THEN 3 ELSE Len(SplitText(text))
           stored == StoredChunks(c.id)
       IN  /\ Cardinality(stored) = N
           /\ { x.chunk_index : x \in stored } = 0..(N - 1)
           /\ \A x \in stored :
                /\ CopiesIn(x, opinions) = 1
                /\ x.text.from = x.chunk_index * (900 - 150)
                /\ x.text.to - x.text.from <= 900
                /\ x.text.to <= text.len
           /\ N > 0 => \E x \in stored : x.text.to = text.len
           /\ \A d \in StoredCase(c.id) : d.opinions_count = N

\* the record with one sub-document of 2000 characters has been processed
C15_Witness ==
  /\ faults = 0
  /\ \E c \in AllClusters :
       /\ Len(c.ops) = 1
       /\ ExtractOpinionText(c.ops[1]).len = 2000
       /\ StoredIndexed(c.id)
       /\ Cardinality(StoredChunks(c.id)) = 3

\* ------------------------------------------------------------ C16
\* C16: a failure of the embedding call for one sub-document is a failure of
\* that sub-document only.  When it is the only failure (the endpoint takes
\* every other input), the invocation of processCluster it happened in has
\* stored the chunks of every other sub-document of the record that has text.
C16_EmbedFailureSparesTheOthers ==
  (faults = 1 /\ embedRejects = {}) =>
     \A e \in threw :
       e[3] # 0 =>
         LET c == ClusterById(e[1])
         IN  \A i \in 1..Len(c.ops) :
               c.ops[i].id # e[3] =>
                 \A d \in ChunksOfOp(c, c.ops[i]) : KeyStored(d)

\* what the code has instead: embedBatch throwing ends the invocation for
\* the whole record, with nothing stored at that step
C16_EmbedFailureEndsTheRecord ==
  [][ (pc = "embed" /\ threw' # threw)
        => /\ pc' = "rec_loop"
           /\ cur' = 0
           /\ opinions' = opinions
           /\ cases' = cases ]_vars

\* ------------------------------------------------------------ C18
\* the checkpoint records stored for this job
StoredCheckpoint == { d \in control : d.job_id = <<"scotus", START_YEAR, END_YEAR>> }

\* C18: resume start point.  A run with resume enabled that is about to
\* fetch its first page fetches the page of the stored checkpoint's cursor
\* whenever a checkpoint exists (an empty cursor leads to no fetch at all),
\* and page one only when no checkpoint exists.
C18_ResumeStartPoint ==
  (resume /\ pc = "page_fetch" /\ fetched = {}) =>
     IF StoredCheckpoint = {}
     THEN url = 1
     ELSE \A d \in StoredCheckpoint : d.next_url # 0 /\ url = d.next_url

\* what the code has instead: an empty cursor counts as no checkpoint
C18_EmptyCursorStartsOver ==
  (resume /\ pc = "page_fetch" /\ fetched = {}) =>
     IF StoredCheckpoint = {} \/ \E d \in StoredCheckpoint : d.next_url = 0
     THEN url = 1
     ELSE \A d \in StoredCheckpoint : url = d.next_url

\* ------------------------------------------------------------ C20
\* C20: no step of any run updates or deletes a stored OpinionChunk or
\* deletes a CaseDocument: every stored chunk is still stored after the
\* step, as many times and with the fields it had, and every case_id that had
\* a CaseDocument still has one.
C20_ChunksAndCasesStay ==
  [][ /\ \A x \in BagToSet(opinions) : CopiesIn(x, opinions') >= CopiesIn(x, opinions)
      /\ \A d \in cases : \E e \in cases' : e.case_id = d.case_id ]_vars

\* a record that a failed invocation left with some chunks has been
\* completed by a later run, under other CaseDocuments
C20_Witness ==
  /\ runs >= 2
  /\ Cardinality(cases) >= 2
  /\ \E c \in AllClusters :
       /\ c.id \in ThrewAfterUpsert(threwPrev)
       /\ StoredIndexed(c.id)
       /\ \E d \in StoredCase(c.id) :
            d.opinions_count > 0 /\ d.opinions_count < Cardinality(StoredChunks(c.id))

\* ------------------------------------------------------------ C17
\* C17: the dedup is check-then-insert and not atomic.  An instance inserts
\* the documents whose key its own findOne found absent, whatever has been
\* stored since, and never one whose key was stored when it probed; so with
\* two instances on the same not-yet-indexed record a key is stored at most
\* once per instance, and the interleaving in which both probe before either
\* inserts leaves two OpinionChunks with the same (case_id, opinion_id,
\* content_hash).
C17_CheckThenInsert ==
  /\ \A w \in Writers :
       \A k \in 1..Len(inst[w].toInsert) : inst[w].toInsert[k] \in inst[w].absent
  /\ \A x \in BagToSet(opinions) : CopiesIn(x, opinions) <= Cardinality(Writers)

\* both instances have returned, and storage holds a key twice
C17_Witness ==
  /\ \A w \in Writers : inst[w].pc = "returned"
  /\ \E x \in BagToSet(opinions) : CopiesIn(x, opinions) = 2
  /\ \E d \in cases : d.case_id = <<"cl", SharedCluster.id>> /\ d.indexed = TRUE

\* ------------------------------------------------------------ C19
\* the checkpoint records stored for a job
CheckpointsOf(coll, jobId) == { d \in coll : d.job_id = jobId }

\* C19: the checkpoint store is keyed by job.  After any sequence of
\* writeCheckpoint calls by any jobs there is at most one checkpoint record
\* per job_id, none for a job that never wrote and one with the cursor last
\* written for a job that did; readCheckpoint of job j returns that record
\* (null for none); and a write of job j leaves every other job's record
\* as it was.
C19_CheckpointKeyedByJob ==
  /\ [](\A jobId \in JobIds :
          IF lastWritten[jobId] = << >>
          THEN CheckpointsOf(control, jobId) = {}
          ELSE /\ Cardinality(CheckpointsOf(control, jobId)) = 1
               /\ \A d \in CheckpointsOf(control, jobId) : d.next_url = lastWritten[jobId][1])
  /\ [][ cpRead' # cpRead =>
            IF lastWritten[cpRead'[1]] = << >>
            THEN cpRead'[2] = << >>
            ELSE /\ Len(cpRead'[2]) = 1
                 /\ cpRead'[2][1].job_id = cpRead'[1]
                 /\ cpRead'[2][1].next_url = lastWritten[cpRead'[1]][1] ]_vars
  /\ [][ \A jobId \in JobIds :
            lastWritten'[jobId] = lastWritten[jobId] =>
              CheckpointsOf(control', jobId) = CheckpointsOf(control, jobId) ]_vars

\* every job has a checkpoint, this job's cursor is not the others', and
\* this job has read its own back
C19_Witness ==
  /\ \A jobId \in JobIds : lastWritten[jobId] # << >>
  /\ Cardinality(control) = Cardinality(JobIds)
  /\ \A jobId \in JobIds \ {<<"scotus", START_YEAR, END_YEAR>>} :
       lastWritten[jobId] # lastWritten[<<"scotus", START_YEAR, END_YEAR>>]
  /\ cpRead # << >>
  /\ cpRead[1] = <<"scotus", START_YEAR, END_YEAR>>
  /\ cpRead[2] # << >>
  /\ cpRead[2][1].next_url = lastWritten[<<"scotus", START_YEAR, END_YEAR>>][1]

\* ------------------------------------------------------------ C21
\* C21: no failure at or above the record boundary aborts the run: after a
\* record-processing failure, a page fetch that has exhausted its retries or
\* a failed checkpoint write, loadAllCases goes on, so no process ever ends
\* through main().catch and process.exit(1).
C21_NoFailureAbortsTheRun ==
  \A i \in 1..Len(exits) : exits[i] # "abort"

\* what the code has instead: a process aborts exactly on an error of the
\* page fetch, of readCheckpoint or of writeCheckpoint, never on an error of
\* processCluster
C21_OnlyPageLevelFailuresAbort ==
  [][ exits' = Append(exits, "abort") => pc \in {"page_fetch", "read_cp", "write_cp"} ]_vars

\* ------------------------------------------------------------ C22
\* C22: termination.  Over the finite page chain, when every awaited call
\* eventually returns, a started loadAllCases eventually ends; and it
\* returns (rather than being ended by an error or a kill) only from the
\* checkpoint write of the page whose next is empty, every page from its
\* start to that one fetched, leaving a checkpoint with the empty cursor.
C22_Terminates ==
  /\ [](Running => <>(pc = "idle"))
  /\ [][ exits' = Append(exits, "done")
          => /\ pc = "write_cp"
             /\ NextOfPage(url) = 0
             /\ fetched = startUrl..NumPages
             /\ \E d \in control' : d.job_id = JOB_ID /\ d.next_url = 0 ]_vars

\* a process that started at page one has returned
C22_Witness ==
  /\ pc = "idle"
  /\ LastExit = "done"
  /\ startUrl = 1
  /\ fetched = 1..NumPages

AbsentBefore == { k \in 1..Len(docs) : ~ \E x \in BagToSet(before) : SameKey(x, docs[k]) }

C24_WitnessNothingInserted ==
  /\ insPc = "returned"
  /\ Len(docs) > 40
  /\ ret = <<0>>
  /\ opinions = before

\* ------------------------------------------------------------ C25
\* the records processCluster works on that have no text at all: no
\* sub-document, or sub-documents that all extract to ''
EmptyRecords ==
  { c \in AllClusters :
      /\ ~OutOfWindow(c)
      /\ \A k \in 1..Len(c.ops) : ExtractOpinionText(c.ops[k]).len = 0 }

\* C25: empty content is a skip.  For a record without text no chunk is
\* ever written and embedBatch is never called; when processCluster is
\* through with it, the record is indexed=true with opinions_count 0; it
\* throws only when a call of its own fails.  And when a record's loop over
\* its sub-documents is over, the chunks of every sub-document with text are
\* stored, whatever empty sub-documents stand before them.
C25_EmptyContentIsASkip ==
  /\ [](\A c \in EmptyRecords :
         /\ StoredChunks(c.id) = {}
         /\ cur = c.id => pc \notin {"embed", "probe", "insert_many"}
         /\ \A d \in StoredCase(c.id) :
              ("indexed" \in DOMAIN d /\ d.indexed = TRUE) => d.opinions_count = 0)
  /\ [][ \A c \in EmptyRecords :
           (cur = c.id /\ cur' # c.id /\ threw' = threw /\ exits' = exits)
             => \E d \in cases' : /\ d.case_id = CaseIdOf(c.id)
                                  /\ d.indexed = TRUE
                                  /\ d.opinions_count = 0 ]_vars
  /\ [][ \A c \in EmptyRecords :
           (cur = c.id /\ threw' # threw) => faults' = faults + 1 ]_vars
  /\ [](\A c \in AllClusters :
         (pc = "pc_mark" /\ cur = c.id)
           => \A k \in 1..Len(c.ops) : \A d \in ChunksOfOp(c, c.ops[k]) : KeyStored(d))

\* a record without sub-documents and one whose only sub-document is empty
\* are indexed, and so is one with an empty sub-document between two with text
C25_Witness ==
  /\ \E c \in EmptyRecords : Len(c.ops) = 0 /\ StoredIndexed(c.id)
  /\ \E c \in EmptyRecords : Len(c.ops) > 0 /\ StoredIndexed(c.id)
  /\ \E c \in AllClusters \ EmptyRecords :
       /\ \E k \in 2..Len(c.ops) :
            /\ ExtractOpinionText(c.ops[k - 1]).len = 0
            /\ ExtractOpinionText(c.ops[k]).len > 0
            /\ \A d \in ChunksOfOp(c, c.ops[k]) : KeyStored(d)
       /\ StoredIndexed(c.id)

\* ------------------------------------------------------------ C26
\* filed from January 1 of START_YEAR to May 1 of END_YEAR, by the calendar
FiledByMayFirst(c) ==
  /\ DateNum(c) >= START_YEAR * 10000 + 101
  /\ DateNum(c) <= END_YEAR * 10000 + 501

\* C26: the orchestrator's date filter keeps only records filed from
\* January 1 of START_YEAR to May 1 of END_YEAR: a dated record filed
\* earlier or later is never handed to processCluster and never counted in
\* totalClusters.
C26_PageFilterKeepsToMayFirst ==
  /\ \A id \in attempted : ClusterById(id).y = 0 \/ FiledByMayFirst(ClusterById(id))
  /\ Running => totalClusters = Cardinality(attempted)
  /\ cur # 0 => (ClusterById(cur).y = 0 \/ FiledByMayFirst(ClusterById(cur)))

\* what the comparison with the string END_YEAR-5-01 keeps: every record of
\* START_YEAR up to the end of END_YEAR
C26_PageFilterKeepsTheEndYear ==
  /\ \A id \in attempted : ~OutOfWindow(ClusterById(id))
  /\ Running => totalClusters = Cardinality(attempted)
  /\ (pc = "write_cp" /\ LastExit # "crash")
       => \A i \in 1..Len(Pages[url]) :
            ~OutOfWindow(Pages[url][i]) => Pages[url][i].id \in attempted

\* ------------------------------------------------------------ C27
\* C27: referential integrity by ordering.  In every reachable state, after
\* a kill or a failed record as well, every stored OpinionChunk has the
\* case_id of a stored CaseDocument, and an insertMany is only ever awaited
\* for a record whose CaseDocument is stored.
C27_ChunksHaveTheirCase ==
  /\ \A x \in BagToSet(opinions) : \E d \in cases : d.case_id = x.case_id
  /\ pc \in {"embed", "probe", "insert_many"} => StoredCase(cur) # {}

\* a process was killed, or a record failed, with chunks of a record stored
\* and the record not yet indexed
C27_Witness ==
  \E c \in AllClusters :
    /\ StoredChunks(c.id) # {}
    /\ StoredCase(c.id) # {}
    /\ ~StoredIndexed(c.id)
    /\ cur # c.id
    /\ LastExit = "crash" \/ c.id \in ThrewIds(threw)

\* ------------------------------------------------------------ C28
AllInWindowIndexed == \A c \in AllClusters : InWindow(c) => StoredIndexed(c.id)

\* no call can fail and no process can be killed any more, the embeddings
\* endpoint rejects nothing, and two more processes can be started
NoMoreFailures ==
  /\ faults = MaxFaults
  /\ embedRejects = {}
  /\ runs <= MaxRuns - 2

\* C28: eventual completion under repeated runs.  When the pipeline is run
\* again and again and from some point on no call fails and no process is
\* killed, eventually every record in the window is indexed=true, the
\* records that failed or were interrupted on pages the checkpoint had
\* already moved past included.
C28_EventualCompletion ==
  [](NoMoreFailures => <>AllInWindowIndexed)

\* the failures are over with a record of the first page failed and not
\* indexed, and the checkpoint past its page
C28_Witness ==
  /\ NoMoreFailures
  /\ \E c \in AllClusters :
       /\ InWindow(c)
       /\ c.id \in ThrewIds(threw)
       /\ ~StoredIndexed(c.id)
       /\ \E d \in control : d.job_id = JOB_ID /\ d.next_url > PageOf(c.id)

\* ------------------------------------------------------------ C29
\* C29: no stale resume.  Once a process with resume disabled has started
\* from page one, no later process with resume enabled starts from a cursor
\* of a checkpoint that was written before that process started, even if
\* that process was killed before its first page was done.
C29_NoStaleResume ==
  (Running /\ resume /\ pc # "read_cp" /\ cpStale)
    => \A d \in control : d.job_id = JOB_ID => d.next_url = 0

\* what holds: the process with resume disabled itself starts at page one,
\* and its first checkpoint write replaces the older cursor
C29_FreshRunStartsAtPageOne ==
  /\ (Running /\ ~resume) => startUrl = 1
  /\ (Running /\ ~resume /\ cpStale) => fetched \subseteq {1}

====
